---- MODULE Spec2Model ----
(***************************************************************************)
(* Fireboat marine forecast (src/src/App.tsx): the MarineForecastApp       *)
(* component, its fetchForecast pipeline and the render states that offer  *)
(* the Retry and Refresh controls.                                         *)
(*                                                                         *)
(* Units.  Instants are whole hours on an absolute axis (the code zeroes   *)
(* minutes, seconds and milliseconds of every Date it computes with).      *)
(* Temperatures, wind speeds, gusts and pressure are in tenths of their    *)
(* unit, tide heights in hundredths of a foot, visibility in metres,       *)
(* times of day in minutes after local midnight.                           *)
(*                                                                         *)
(* debugLog (line 56) is written by addLog and read only by the loading    *)
(* and error views; no handler branches on it, and it is left out.         *)
(***************************************************************************)
EXTENDS Integers, Sequences, FiniteSets, TLC

VARIABLES
    forecast,    \* useState<ForecastData | null>
    loading,     \* useState(true)
    lastUpdate,  \* useState<Date | null>
    error,       \* useState<string | null>
    runs,        \* the invocations of fetchForecast, each with its locals
                 \* while in flight and with its outcome once done
    clock,       \* the instant new Date() returns
    tz,          \* the host's time zone rule, which Date's local methods use
    ticks,       \* hours elapsed since the component was constructed
    last,        \* the locals of the run that completed last
    scope        \* which answers the three services can give in this behaviour

vars == <<forecast, loading, lastUpdate, error, runs, clock, tz, ticks, last,
          scope>>

-----------------------------------------------------------------------------
(* Bounds of the model.                                                    *)

MaxDays == 3        \* days of the modelled calendar
TransitionDay == 1  \* the day whose 02:00 is a daylight-saving transition
MaxLen == 34        \* longest hourly series
MaxTides == 5       \* longest raw tide-prediction list
MaxWind == 26       \* strongest hourly wind, knots
MaxRuns == 3        \* invocations of fetchForecast in one behaviour
MaxTicks == 2       \* hours the clock advances in one behaviour

MaxClock == MaxDays * 24 - 1

-----------------------------------------------------------------------------
(* JavaScript values.                                                      *)

null == [null |-> TRUE]
NoError == "<null>"
NoDate == -1

Min2(a, b) == IF a < b THEN a ELSE b
Max2(a, b) == IF a > b THEN a ELSE b

\* Math.round on n/den for den > 0: the nearest integer, ties toward +infinity.
\* Number.prototype.toFixed(0) agrees with it on the non-negative values used.
RoundDiv(n, den) == (2 * n + den) \div (2 * den)

\* String(n).padStart(2, '0') and the '2-digit' option of toLocale*String
Pad2(n) == IF n < 10 THEN "0" \o ToString(n) ELSE ToString(n)

\* n tenths printed as toFixed(1) prints it
Fixed1(n) ==
    IF n < 0 THEN "-" \o ToString((-n) \div 10) \o "." \o ToString((-n) % 10)
    ELSE ToString(n \div 10) \o "." \o ToString(n % 10)

\* n hundredths printed as toFixed(2) prints it
Fixed2(n) == ToString(n \div 100) \o "." \o Pad2(n % 100)

RECURSIVE Sum(_)
Sum(s) == IF s = <<>> THEN 0 ELSE Head(s) + Sum(Tail(s))

Range(s) == {s[i] : i \in DOMAIN s}
MathMin(s) == CHOOSE x \in Range(s) : \A y \in Range(s) : x <= y
MathMax(s) == CHOOSE x \in Range(s) : \A y \in Range(s) : x >= y

\* Array.prototype.slice(a, b) for 0 <= a: elements a .. b-1 (0-based), b
\* capped at the array's length.
Slice(s, a, b) == SubSeq(s, a + 1, Min2(b, Len(s)))

-----------------------------------------------------------------------------
(* Date: local time is the absolute hour plus the zone's offset, which     *)
(* steps by one hour at 02:00 of TransitionDay in a zone with daylight     *)
(* saving (forward in "spring", back in "fall").                           *)

Zones == {"fixed", "spring", "fall"}

Offset(z, t) ==
    IF t < TransitionDay * 24 + 2 THEN 0
    ELSE IF z = "spring" THEN 1
    ELSE IF z = "fall" THEN -1
    ELSE 0

Wall(z, t) == t + Offset(z, t)

getHours(z, t) == Wall(z, t) % 24
getDate(z, t) == Wall(z, t) \div 24

\* The instant whose local reading is the given day and hour.
FromLocal(z, day, hour) ==
    LET w == day * 24 + hour
    IN CHOOSE t \in (w - 1)..(w + 1) : Wall(z, t) = w

\* date.setHours(h, 0, 0, 0) and date.setDate(d)
setHours(z, t, h) == FromLocal(z, getDate(z, t), h)
setDate(z, t, d) == FromLocal(z, d, getHours(z, t))

\* shiftStartOf without the step back to yesterday of lines 78-80
shiftStartOf_NoRollback(z, now) == setHours(z, now, 8)

\* lines 75-83: the 24-hour shift window of fetchForecast
shiftStartOf(z, now) ==
    LET s == setHours(z, now, 8)
    IN IF getHours(z, now) < 8 THEN setDate(z, s, getDate(z, s) - 1) ELSE s

shiftEndOf(z, shiftStart) ==
    setHours(z, setDate(z, shiftStart, getDate(z, shiftStart) + 1), 8)

\* toLocaleString('en-US', {weekday, month, day, hour: '2-digit', minute: '2-digit'})
FormatShift(z, t) ==
    LET h == getHours(z, t)
        h12 == IF h % 12 = 0 THEN 12 ELSE h % 12
    IN "day " \o ToString(getDate(z, t)) \o ", " \o Pad2(h12) \o ":00 "
       \o (IF h < 12 THEN "AM" ELSE "PM")

\* toLocaleTimeString('en-US', {hour: '2-digit', minute: '2-digit', hour12: false})
\* of a time of day given in minutes
FormatTime(m) == Pad2(m \div 60) \o ":" \o Pad2(m % 60)

-----------------------------------------------------------------------------
(* The payloads the three upstream services can answer with.               *)

\* Weather codes that the hourly series cycles through; 4 is not in the table
\* of getWeatherDescription.
CodeCycle == <<0, 3, 61, 45, 4, 95>>

\* An object without one of its properties; a path names a property of the
\* payload, <<"current">>, or of one of its objects, <<"current", "weather_code">>.
Without(obj, path) ==
    IF Len(path) = 1
    THEN [f \in DOMAIN obj \ {path[1]} |-> obj[f]]
    ELSE [obj EXCEPT ![path[1]] = [f \in DOMAIN @ \ {path[2]} |-> @[f]]]

\* A complete parsed Open-Meteo answer with an hourly series of len hours
\* whose wind is wind tenths of a knot (plus alt in every odd hour).
FullWeather(len, wind, alt) ==
    [hourly |->
        [time |-> [i \in 1..len |-> i - 1],
         temperature_2m |-> [i \in 1..len |-> 480 + (((i - 1) * 37) % 113)],
         precipitation_probability |-> [i \in 1..len |-> ((i - 1) * 15) % 100],
         weather_code |-> [i \in 1..len |-> CodeCycle[((i - 1) % 6) + 1]],
         visibility |-> [i \in 1..len |-> 24140 - (((i - 1) * 1700) % 20000)],
         wind_speed_10m |->
            [i \in 1..len |-> wind + (IF (i - 1) % 2 = 1 THEN alt ELSE 0)],
         wind_direction_10m |-> [i \in 1..len |-> ((i - 1) * 50) % 360],
         wind_gusts_10m |-> [i \in 1..len |-> wind + 50 + ((i - 1) % 3) * 7]],
     current |->
        [temperature_2m |-> 523, apparent_temperature |-> 498,
         weather_code |-> 3, wind_speed_10m |-> wind,
         wind_direction_10m |-> 200, wind_gusts_10m |-> wind + 50,
         pressure_msl |-> 10132, relative_humidity_2m |-> 81],
     daily |-> [sunrise |-> <<447>>, sunset |-> <<1023>>]]

\* An answer whose hourly arrays stop after `short` hours while hourly.time
\* runs to len hours.
RaggedWeather(len, short) ==
    LET w == FullWeather(len, 120, 10)
    IN [w EXCEPT !.hourly =
          [f \in DOMAIN w.hourly |->
             IF f = "time" THEN w.hourly[f] ELSE SubSeq(w.hourly[f], 1, short)]]

RECURSIVE WithoutAll(_, _)
WithoutAll(obj, paths) ==
    IF paths = {} THEN obj
    ELSE LET path == CHOOSE q \in paths : TRUE
         IN WithoutAll(Without(obj, path), paths \ {path})

\* The same answer lacking the properties named by missing.
MakeWeather(len, wind, alt, missing) ==
    WithoutAll(FullWeather(len, wind, alt), missing)

\* What `await fetch(weatherUrl)` and `await weatherResponse.json()` give.
WeatherReject == [kind |-> "reject"]
WeatherNotOk == [kind |-> "notOk", status |-> 500]
WeatherBadJson == [kind |-> "badJson"]
WeatherOk(data) == [kind |-> "ok", data |-> data]

\* A raw NOAA prediction: t the time of day in minutes, type 'H' or 'L',
\* v the height in hundredths of a foot.  The i-th event of a list comes
\* 373 minutes after the one before it.
RawTide(i, type) ==
    [t |-> (95 + (i - 1) * 373) % 1440,
     type |-> type,
     v |-> IF type = "H" THEN 1051 + 13 * i ELSE 10 * i - 44]

RawTideLists(maxLen) ==
    UNION {{[i \in 1..n |-> RawTide(i, ty[i])] : ty \in [1..n -> {"H", "L"}]}
           : n \in 0..maxLen}

\* What `await fetch(tideUrl)` and `await tideResponse.json()` give.
TideReject == [kind |-> "reject"]
TideBadJson == [kind |-> "badJson"]
TideNoPredictions == [kind |-> "noPredictions"]
TidePredictions(list) == [kind |-> "predictions", predictions |-> list]

\* What the water-temperature fetch gives; v is in tenths of a degree.
WaterReject == [kind |-> "reject"]
WaterBadJson == [kind |-> "badJson"]
WaterNoData == [kind |-> "noData"]
WaterData(list) == [kind |-> "data", data |-> list]

\* The ways a weather payload can lack what the run reads.
Malformations ==
    {{<<"hourly">>}, {<<"current">>}, {<<"daily">>},
     {<<"current", "temperature_2m">>}, {<<"current", "pressure_msl">>},
     {<<"hourly", "wind_speed_10m">>}, {<<"daily", "sunrise">>}}

\* Hourly winds of every strength, tenths of a knot.
Winds == {10 * w + d : w \in 0..MaxWind, d \in {0, 4, 5, 6}}

WeatherAnswers(sc) ==
    CASE sc = "app" ->
           {WeatherNotOk,
            WeatherOk(MakeWeather(6, 120, 10, {})),
            WeatherOk(MakeWeather(6, 120, 10, {<<"current">>})),
            WeatherOk(MakeWeather(6, 120, 10, {<<"current", "temperature_2m">>}))}
      [] sc = "slice" ->
           {WeatherOk(MakeWeather(len, 120, 10, {})) : len \in 1..MaxLen}
           \cup {WeatherOk(RaggedWeather(24, short)) : short \in {3, 12}}
      [] sc = "degrade" ->
           {WeatherReject, WeatherNotOk, WeatherBadJson}
           \cup {WeatherOk(MakeWeather(24, 120, 10, m))
                 : m \in {{}} \cup Malformations}
           \cup {WeatherOk(MakeWeather(1, 120, 10, {<<"hourly", "temperature_2m">>}))}
      [] sc = "wave" ->
           {WeatherOk(MakeWeather(24, wind, alt, {}))
            : wind \in Winds, alt \in {0, 10}}
      [] sc = "tide" -> {WeatherOk(MakeWeather(24, 120, 10, {}))}
      [] sc = "shift" -> {WeatherNotOk, WeatherOk(MakeWeather(24, 120, 10, {}))}

TideAnswers(sc) ==
    CASE sc = "app" ->
           {TideReject, TidePredictions(<<RawTide(1, "L"), RawTide(2, "H")>>)}
      [] sc = "degrade" ->
           {TideReject, TideBadJson, TideNoPredictions, TidePredictions(<<>>),
            TidePredictions(<<RawTide(1, "L"), RawTide(2, "H")>>),
            TidePredictions(<<RawTide(1, "H"), RawTide(2, "L"), RawTide(3, "H")>>)}
      [] sc = "tide" ->
           {TideReject, TideBadJson, TideNoPredictions}
           \cup {TidePredictions(l) : l \in RawTideLists(MaxTides)}
      [] OTHER -> {TideReject}

WaterAnswers(sc) ==
    CASE sc = "app" -> {WaterNoData, WaterData(<<[v |-> 487]>>)}
      [] sc = "degrade" ->
           {WaterReject, WaterBadJson, WaterNoData, WaterData(<<>>),
            WaterData(<<[v |-> 487]>>), WaterData(<<[v |-> 535]>>)}
      [] OTHER -> {WaterNoData}

\* The answers the services can give in this behaviour.
upstream ==
    [weather |-> WeatherAnswers(scope), tide |-> TideAnswers(scope),
     water |-> WaterAnswers(scope)]

-----------------------------------------------------------------------------
(* fetchForecast, lines 105-171: tides, water temperature, the tables.     *)

\* lines 112-120: tideData.predictions.slice(0, 4).map(...)
FormatTide(tide) ==
    [time |-> FormatTime(tide.t),
     type |-> IF tide.type = "H" THEN "High" ELSE "Low",
     height |-> (IF tide.v < 0 THEN "-" ELSE "")
                \o Fixed1(RoundDiv(IF tide.v < 0 THEN -tide.v ELSE tide.v, 10))
                \o " ft"]

TideSliceEnd == 4

\* NormalizeTides without the slice(0, 4)
NormalizeTides_NoCap(predictions) ==
    [i \in 1..Len(predictions) |-> FormatTide(predictions[i])]

NormalizeTides(predictions) ==
    LET kept == Slice(predictions, 0, TideSliceEnd)
    IN [i \in 1..Len(kept) |-> FormatTide(kept[i])]

\* lines 106-125: tides stays [] unless the answer parses and has predictions
TidesOf(resp) ==
    IF resp.kind = "predictions" THEN NormalizeTides(resp.predictions) ELSE <<>>

\* lines 128-139: waterTemp stays '52°F' unless data has a first reading
DefaultWaterTemp == "52°F"

\* WaterTempOf without the length check of line 133
WaterTempOf_NoLengthCheck(resp) ==
    IF resp.kind = "data"
    THEN IF Len(resp.data) > 0
         THEN ToString(RoundDiv(resp.data[1].v, 10)) \o "°F"
         ELSE "NaN°F"
    ELSE DefaultWaterTemp

WaterTempOf(resp) ==
    IF resp.kind = "data" /\ Len(resp.data) > 0
    THEN ToString(RoundDiv(resp.data[1].v, 10)) \o "°F"
    ELSE DefaultWaterTemp

\* lines 141-150
getWeatherDescription(code) ==
    CASE code = 0 -> "Clear" [] code = 1 -> "Mainly Clear"
      [] code = 2 -> "Partly Cloudy" [] code = 3 -> "Overcast"
      [] code = 45 -> "Foggy" [] code = 48 -> "Foggy"
      [] code = 51 -> "Light Drizzle" [] code = 53 -> "Drizzle"
      [] code = 55 -> "Heavy Drizzle" [] code = 61 -> "Light Rain"
      [] code = 63 -> "Rain" [] code = 65 -> "Heavy Rain"
      [] code = 71 -> "Light Snow" [] code = 73 -> "Snow"
      [] code = 75 -> "Heavy Snow" [] code = 80 -> "Light Showers"
      [] code = 81 -> "Showers" [] code = 82 -> "Heavy Showers"
      [] code = 95 -> "Thunderstorm"
      [] OTHER -> "Unknown"

\* lines 152-155, for a bearing of num/den degrees
dirs == <<"N", "NNE", "NE", "ENE", "E", "ESE", "SE", "SSE",
          "S", "SSW", "SW", "WSW", "W", "WNW", "NW", "NNW">>

getWindDirection(num, den) == dirs[(RoundDiv(2 * num, 45 * den) % 16) + 1]

\* lines 157-159: (meters / 1609.34).toFixed(1)
metersToMiles(meters) == Fixed1(RoundDiv(meters * 1000, 160934))

\* CurrentOf with the two orderings exchanged
CurrentOf_Swapped(tides) ==
    IF Len(tides) >= 2 /\ tides[1].type = "High" /\ tides[2].type = "Low"
    THEN [currentDir |-> "Flood (incoming)", currentSpeed |-> "0.5-1.5 kt"]
    ELSE IF Len(tides) >= 2 /\ tides[1].type = "Low" /\ tides[2].type = "High"
    THEN [currentDir |-> "Ebb (outgoing)", currentSpeed |-> "0.5-1.5 kt"]
    ELSE [currentDir |-> "Variable", currentSpeed |-> "Variable"]

\* CurrentOf with another word for the undecided case
CurrentOf_Slack(tides) ==
    IF Len(tides) >= 2 /\ tides[1].type = "Low" /\ tides[2].type = "High"
    THEN [currentDir |-> "Flood (incoming)", currentSpeed |-> "0.5-1.5 kt"]
    ELSE IF Len(tides) >= 2 /\ tides[1].type = "High" /\ tides[2].type = "Low"
    THEN [currentDir |-> "Ebb (outgoing)", currentSpeed |-> "0.5-1.5 kt"]
    ELSE [currentDir |-> "Slack", currentSpeed |-> "Variable"]

\* lines 161-171
CurrentOf(tides) ==
    IF Len(tides) >= 2 /\ tides[1].type = "Low" /\ tides[2].type = "High"
    THEN [currentDir |-> "Flood (incoming)", currentSpeed |-> "0.5-1.5 kt"]
    ELSE IF Len(tides) >= 2 /\ tides[1].type = "High" /\ tides[2].type = "Low"
    THEN [currentDir |-> "Ebb (outgoing)", currentSpeed |-> "0.5-1.5 kt"]
    ELSE [currentDir |-> "Variable", currentSpeed |-> "Variable"]

-----------------------------------------------------------------------------
(* fetchForecast, lines 174-236: the four period forecasts.                *)

periods ==
    <<[name |-> "Morning (08:00-12:00)", start |-> 8, end |-> 12],
      [name |-> "Afternoon (12:00-18:00)", start |-> 12, end |-> 18],
      [name |-> "Evening (18:00-00:00)", start |-> 18, end |-> 24],
      [name |-> "Night (00:00-08:00)", start |-> 0, end |-> 8]>>

\* RawStartIdx without the day-forward correction of the Night period
RawStartIdx_NoWrap(period, currentHour) == period.start - currentHour

\* lines 185-191
RawStartIdx(period, currentHour) ==
    IF period.start < 8 THEN 24 - currentHour + period.start
    ELSE period.start - currentHour

RawEndIdx(period, currentHour) ==
    IF period.start < 8 THEN 24 - currentHour + period.end
    ELSE period.end - currentHour

\* lines 193-194
ClampStart(startIdx) == Max2(0, startIdx)

\* ClampEnd clamping to the length, not to the last index
ClampEnd_ToLength(length, endIdx) == Min2(length, endIdx)

ClampEnd(length, endIdx) == Min2(length - 1, endIdx)

PeriodRange(period, currentHour, length) ==
    [startIdx |-> ClampStart(RawStartIdx(period, currentHour)),
     endIdx |-> ClampEnd(length, RawEndIdx(period, currentHour))]

\* IsEmptyRange letting a range of no hours through
IsEmptyRange_Strict(r) == r.startIdx > r.endIdx

\* line 196
IsEmptyRange(r) == r.startIdx >= r.endIdx

\* lines 197-205
NAForecast(period) ==
    [period |-> period.name, temp |-> "N/A", conditions |-> "N/A",
     wind |-> "N/A", visibility |-> "N/A", precipitation |-> "N/A",
     waves |-> "N/A"]

\* line 219: (sum / length).toFixed(0) of a slice in tenths of a knot
AvgWind(winds) == RoundDiv(Sum(winds), 10 * Len(winds))

\* WaveHeight with inclusive thresholds
WaveHeight_Inclusive(avgWindNum) ==
    IF avgWindNum <= 10 THEN "1-2 ft"
    ELSE IF avgWindNum <= 15 THEN "2-3 ft"
    ELSE IF avgWindNum <= 20 THEN "3-5 ft"
    ELSE "4-6 ft"

\* line 225
WaveHeight(avgWindNum) ==
    IF avgWindNum < 10 THEN "1-2 ft"
    ELSE IF avgWindNum < 15 THEN "2-3 ft"
    ELSE IF avgWindNum < 20 THEN "3-5 ft"
    ELSE "4-6 ft"

\* How often code c occurs in a slice of weather codes.
Count(weatherCodes, c) ==
    Cardinality({k \in DOMAIN weatherCodes : weatherCodes[k] = c})

\* DominantCode as a majority vote: a code that no other code outnumbers
DominantCode_Majority(weatherCodes) ==
    CHOOSE c \in Range(weatherCodes) :
        \A d \in Range(weatherCodes) : Count(weatherCodes, c) >= Count(weatherCodes, d)

\* line 223: weatherCodes[Math.floor(weatherCodes.length / 2)]
DominantCode(weatherCodes) == weatherCodes[(Len(weatherCodes) \div 2) + 1]

\* Lines 216-225 over a slice that may be empty: Math.min() is Infinity,
\* Math.max() is -Infinity, 0 / 0 is NaN, an array has no element 0 and a
\* comparison with NaN is false.
MinOf(s, den) ==
    IF s = <<>> THEN "Infinity" ELSE ToString(RoundDiv(MathMin(s), den))

MaxOf(s, den) ==
    IF s = <<>> THEN "-Infinity" ELSE ToString(RoundDiv(MathMax(s), den))

AvgWindOf(winds) == IF winds = <<>> THEN "NaN" ELSE ToString(AvgWind(winds))

AvgWindDirOf(windDirs) ==
    IF windDirs = <<>> THEN "undefined"
    ELSE getWindDirection(Sum(windDirs), Len(windDirs))

MinVisOf(visibility) ==
    IF visibility = <<>> THEN "Infinity" ELSE metersToMiles(MathMin(visibility))

DominantOf(weatherCodes) ==
    IF weatherCodes = <<>> THEN "Unknown"
    ELSE getWeatherDescription(DominantCode(weatherCodes))

WaveOf(winds) ==
    IF winds = <<>> THEN "4-6 ft" ELSE WaveHeight(AvgWind(winds))

\* The hourly arrays in the order lines 208-214 slice them.
SlicedArrays ==
    <<"temperature_2m", "precipitation_probability", "wind_speed_10m",
      "wind_gusts_10m", "wind_direction_10m", "visibility", "weather_code">>

\* lines 208-214: the slice of one hourly array
SliceOf(hourly, name, r) == Slice(hourly[name], r.startIdx, r.endIdx)

\* lines 208-235
Aggregate(period, r, hourly) ==
    LET temps == SliceOf(hourly, "temperature_2m", r)
        precips == SliceOf(hourly, "precipitation_probability", r)
        winds == SliceOf(hourly, "wind_speed_10m", r)
        gusts == SliceOf(hourly, "wind_gusts_10m", r)
        windDirs == SliceOf(hourly, "wind_direction_10m", r)
        visibility == SliceOf(hourly, "visibility", r)
        weatherCodes == SliceOf(hourly, "weather_code", r)
    IN [period |-> period.name,
        temp |-> MinOf(temps, 10) \o "-" \o MaxOf(temps, 10) \o "°F",
        conditions |-> DominantOf(weatherCodes),
        wind |-> AvgWindOf(winds) \o " kt " \o AvgWindDirOf(windDirs)
                 \o " (Gusts " \o MaxOf(gusts, 10) \o " kt)",
        visibility |-> MinVisOf(visibility) \o " mi",
        precipitation |-> MaxOf(precips, 1) \o "%",
        waves |-> WaveOf(winds)]

\* lines 196-214: the lengths of the seven slices that lines 216-223 reduce
\* for this period, none when line 196 returns the N/A summary
ReducedLengths(period, currentHour, hourly) ==
    LET r == PeriodRange(period, currentHour, Len(hourly.time))
    IN IF IsEmptyRange(r) THEN <<>>
       ELSE [k \in DOMAIN SlicedArrays |-> Len(SliceOf(hourly, SlicedArrays[k], r))]

\* lines 182-236, one element of periods.map
PeriodForecastOf(period, currentHour, hourly) ==
    LET r == PeriodRange(period, currentHour, Len(hourly.time))
    IN IF IsEmptyRange(r) THEN NAForecast(period) ELSE Aggregate(period, r, hourly)

-----------------------------------------------------------------------------
(* fetchForecast, lines 238-279: the report, or the exception.             *)

Has(obj, path) ==
    /\ path[1] \in DOMAIN obj
    /\ Len(path) = 2 => path[2] \in DOMAIN obj[path[1]]

\* The TypeError, if any, that lines 182-268 raise on this payload: reading a
\* property of undefined throws, passing undefined to Math.round does not.
ThrownBy(currentHour, weatherData) ==
    IF ~Has(weatherData, <<"hourly">>)
    THEN "Cannot read properties of undefined (reading 'time')"
    ELSE IF ~Has(weatherData, <<"hourly", "time">>)
    THEN "Cannot read properties of undefined (reading 'length')"
    ELSE IF /\ \E i \in DOMAIN periods :
                 ~IsEmptyRange(PeriodRange(periods[i], currentHour,
                                           Len(weatherData.hourly.time)))
            /\ \E k \in DOMAIN SlicedArrays :
                 ~Has(weatherData, <<"hourly", SlicedArrays[k]>>)
    THEN "Cannot read properties of undefined (reading 'slice')"
    ELSE IF ~Has(weatherData, <<"current">>)
    THEN "Cannot read properties of undefined (reading 'temperature_2m')"
    ELSE IF ~Has(weatherData, <<"daily">>)
    THEN "Cannot read properties of undefined (reading 'sunrise')"
    ELSE IF ~Has(weatherData, <<"daily", "sunrise">>)
            \/ ~Has(weatherData, <<"daily", "sunset">>)
    THEN "Cannot read properties of undefined (reading '0')"
    ELSE NoError

\* `${Math.round(current[field])}${unit}`: NaN for a field that is undefined
Rounded(current, field, unit) ==
    IF field \in DOMAIN current
    THEN ToString(RoundDiv(current[field], 10)) \o unit
    ELSE "NaN" \o unit

\* lines 249-258
CurrentConditions(current) ==
    [temp |-> Rounded(current, "temperature_2m", "°F"),
     feelsLike |-> Rounded(current, "apparent_temperature", "°F"),
     conditions |-> IF "weather_code" \in DOMAIN current
                    THEN getWeatherDescription(current.weather_code)
                    ELSE "Unknown",
     windSpeed |-> Rounded(current, "wind_speed_10m", " kt"),
     windDir |-> IF "wind_direction_10m" \in DOMAIN current
                 THEN getWindDirection(current.wind_direction_10m, 1)
                 ELSE "undefined",
     gusts |-> Rounded(current, "wind_gusts_10m", " kt"),
     pressure |-> IF "pressure_msl" \in DOMAIN current
                  THEN Fixed2(RoundDiv(current.pressure_msl * 10000, 33864))
                       \o " inHg"
                  ELSE "NaN inHg",
     humidity |-> IF "relative_humidity_2m" \in DOMAIN current
                  THEN ToString(current.relative_humidity_2m) \o "%"
                  ELSE "undefined%"]

\* lines 239-268
ForecastObj(z, shiftStart, shiftEnd, currentHour, weatherData, tides, waterTemp) ==
    [location |-> "Elliott Bay, Seattle",
     shiftStart |-> FormatShift(z, shiftStart),
     shiftEnd |-> FormatShift(z, shiftEnd),
     tides |-> tides,
     conditions |->
        [current |-> CurrentConditions(weatherData.current),
         forecast |-> [i \in DOMAIN periods |->
                          PeriodForecastOf(periods[i], currentHour,
                                           weatherData.hourly)]],
     marine |->
        [waterTemp |-> waterTemp,
         currentSpeed |-> CurrentOf(tides).currentSpeed,
         currentDir |-> CurrentOf(tides).currentDir,
         sunrise |-> FormatTime(weatherData.daily.sunrise[1]),
         sunset |-> FormatTime(weatherData.daily.sunset[1])]]

-----------------------------------------------------------------------------
(* The component: its state after construction, and its handlers.          *)

RunIds == 1..MaxRuns
Idle == [pc |-> "idle"]
NoRun == [id |-> 0]

InFlight == {id \in RunIds : runs[id].pc \in {"weather", "tide", "water"}}
Started == {id \in RunIds : runs[id].pc # "idle"}

\* lines 52-56, before the effect of line 282 has run
InitWith(clocks, zones, sc) ==
    /\ forecast = null
    /\ loading = TRUE
    /\ lastUpdate = NoDate
    /\ error = NoError
    /\ runs = [id \in RunIds |-> Idle]
    /\ clock \in clocks
    /\ tz \in zones
    /\ ticks = 0
    /\ last = NoRun
    /\ scope = sc

\* lines 286-344: what the component renders, hence which button exists
View ==
    IF loading THEN "loading"
    ELSE IF error # NoError THEN "error"
    ELSE IF forecast = null THEN "blank"
    ELSE "report"

\* StartRun without the setError(null) of line 69
StartRun_KeepError(id) ==
    /\ runs[id].pc = "idle"
    /\ \A j \in RunIds : j < id => runs[j].pc # "idle"
    /\ loading' = TRUE
    /\ runs' = [runs EXCEPT ![id] =
                  [pc |-> "weather", now |-> clock,
                   shiftStart |-> shiftStartOf(tz, clock),
                   shiftEnd |-> shiftEndOf(tz, shiftStartOf(tz, clock))]]
    /\ UNCHANGED <<forecast, lastUpdate, error, clock, tz, ticks, last, scope>>

\* lines 67-98: fetchForecast up to its first await
StartRun(id) ==
    /\ runs[id].pc = "idle"
    /\ \A j \in RunIds : j < id => runs[j].pc # "idle"
    /\ loading' = TRUE
    /\ error' = NoError
    /\ runs' = [runs EXCEPT ![id] =
                  [pc |-> "weather", now |-> clock,
                   shiftStart |-> shiftStartOf(tz, clock),
                   shiftEnd |-> shiftEndOf(tz, shiftStartOf(tz, clock))]]
    /\ UNCHANGED <<forecast, lastUpdate, clock, tz, ticks, last, scope>>

\* lines 282-284: the effect, once after the first render
Mount ==
    /\ Started = {}
    /\ StartRun(1)

\* lines 309-314: the Retry button of the error view
ClickRetry ==
    /\ View = "error"
    /\ \E id \in RunIds : StartRun(id)

\* ClickRefresh with the button on every view that has a report to show,
\* the loading view included
ClickRefresh_WhileLoading ==
    /\ forecast # null
    /\ \E id \in RunIds : StartRun(id)

\* lines 338-344: the Refresh button of the report view
ClickRefresh ==
    /\ View = "report"
    /\ \E id \in RunIds : StartRun(id)

\* lines 273-279: catch and finally
Fails(id, message, detail) ==
    /\ error' = message
    /\ loading' = FALSE
    /\ runs' = [runs EXCEPT ![id] = [pc |-> "done", ok |-> FALSE]]
    /\ last' = [id |-> id, ok |-> FALSE, message |-> message] @@ detail
    /\ UNCHANGED <<forecast, lastUpdate, clock, tz, ticks, scope>>

\* lines 98-103: the weather fetch settles
WeatherResponse(id) ==
    /\ runs[id].pc = "weather"
    /\ \E resp \in upstream.weather :
         IF resp.kind = "reject"
         THEN Fails(id, "Failed to fetch", [weatherIn |-> resp])
         ELSE IF resp.kind = "notOk"
         THEN Fails(id, "Weather API returned " \o ToString(resp.status),
                    [weatherIn |-> resp])
         ELSE IF resp.kind = "badJson"
         THEN Fails(id, "Unexpected token < in JSON at position 0",
                    [weatherIn |-> resp])
         ELSE /\ runs' = [runs EXCEPT ![id] =
                            [pc |-> "tide", weatherData |-> resp.data] @@ @]
              /\ UNCHANGED <<forecast, loading, lastUpdate, error, clock, tz,
                             ticks, last, scope>>

\* lines 105-125: the tide fetch settles
TideResponse(id) ==
    /\ runs[id].pc = "tide"
    /\ \E resp \in upstream.tide :
         runs' = [runs EXCEPT ![id] =
                    [pc |-> "water", tideIn |-> resp, tides |-> TidesOf(resp)] @@ @]
    /\ UNCHANGED <<forecast, loading, lastUpdate, error, clock, tz, ticks, last,
                   scope>>

\* lines 127-279: the water-temperature fetch settles and the run completes
WaterResponse(id) ==
    /\ runs[id].pc = "water"
    /\ \E resp \in upstream.water :
         LET run == runs[id]
             waterTemp == WaterTempOf(resp)
             currentHour == getHours(tz, run.now)
             thrown == ThrownBy(currentHour, run.weatherData)
             detail ==
                [now |-> run.now, currentHour |-> currentHour,
                 shiftStart |-> run.shiftStart, shiftEnd |-> run.shiftEnd,
                 weatherIn |-> WeatherOk(run.weatherData),
                 tideIn |-> run.tideIn, waterIn |-> resp,
                 tides |-> run.tides, waterTemp |-> waterTemp,
                 ranges |->
                    IF Has(run.weatherData, <<"hourly", "time">>)
                    THEN [i \in DOMAIN periods |->
                            PeriodRange(periods[i], currentHour,
                                        Len(run.weatherData.hourly.time))]
                    ELSE <<>>,
                 reduced |->
                    IF thrown = NoError
                    THEN [i \in DOMAIN periods |->
                            ReducedLengths(periods[i], currentHour,
                                           run.weatherData.hourly)]
                    ELSE <<>>]
         IN IF thrown # NoError
            THEN Fails(id, thrown, detail)
            ELSE /\ forecast' = ForecastObj(tz, run.shiftStart, run.shiftEnd,
                                            currentHour, run.weatherData,
                                            run.tides, waterTemp)
                 /\ lastUpdate' = clock
                 /\ loading' = FALSE
                 /\ runs' = [runs EXCEPT ![id] = [pc |-> "done", ok |-> TRUE]]
                 /\ last' = [id |-> id, ok |-> TRUE, message |-> NoError] @@ detail
                 /\ UNCHANGED <<error, clock, tz, ticks, scope>>

\* Time passes.
Tick ==
    /\ ticks < MaxTicks
    /\ clock < MaxClock
    /\ clock' = clock + 1
    /\ ticks' = ticks + 1
    /\ UNCHANGED <<forecast, loading, lastUpdate, error, runs, tz, last, scope>>

\* One run from construction: no click, and a clock that stands still.
RunNext ==
    \/ Mount
    \/ \E id \in RunIds : WeatherResponse(id)
    \/ \E id \in RunIds : TideResponse(id)
    \/ \E id \in RunIds : WaterResponse(id)

Next ==
    \/ RunNext
    \/ ClickRetry
    \/ ClickRefresh
    \/ Tick

-----------------------------------------------------------------------------
(* Specifications.                                                         *)

\* The component with its buttons and the clock; a few answers per service.
Init == InitWith({7}, {"fixed"}, "app")

Spec == Init /\ [][Next]_vars

\* Every fetch settles and every continuation of an async function is run.
\* The last conjunct is WF_vars(WaterResponse(id)) with its enabling
\* condition, runs[id].pc = "water", written out.
Fairness ==
    /\ WF_vars(Mount)
    /\ \A id \in RunIds :
         /\ WF_vars(WeatherResponse(id))
         /\ WF_vars(TideResponse(id))
         /\ \/ []<>(runs[id].pc # "water")
            \/ []<><<WaterResponse(id)>>_vars

FairSpec == Spec /\ Fairness

\* One run at any instant of the calendar, in any zone.
ShiftInit == InitWith(0..MaxClock, Zones, "shift")

ShiftSpec == ShiftInit /\ [][RunNext]_vars

\* One run at any hour of the day over any length of hourly series.
SliceInit == InitWith(0..23, {"fixed"}, "slice")

SliceSpec == SliceInit /\ [][RunNext]_vars

\* One run over any weather answer, any kind of tide answer and any kind of
\* water-temperature answer.
DegradeInit == InitWith({7, 13}, {"fixed"}, "degrade")

DegradeSpec == DegradeInit /\ [][RunNext]_vars

\* One run over any raw tide-prediction list.
TideInit == InitWith({7}, {"fixed"}, "tide")

TideSpec == TideInit /\ [][RunNext]_vars

\* One run over hourly winds of every strength.
WaveInit == InitWith({8, 13}, {"fixed"}, "wave")

WaveSpec == WaveInit /\ [][RunNext]_vars

-----------------------------------------------------------------------------
(* Properties.                                                             *)

\* The run that completed last read a parsed weather payload to its end.
Computed == last.id # 0 /\ last.weatherIn.kind = "ok" /\ last.ranges # <<>>

SeriesLength == Len(last.weatherIn.data.hourly.time)

AllNA(p) ==
    /\ p.temp = "N/A" /\ p.conditions = "N/A" /\ p.wind = "N/A"
    /\ p.visibility = "N/A" /\ p.precipitation = "N/A" /\ p.waves = "N/A"

\* C1 as stated: for each of the four periods, every currentHour and every
\* series length >= 1, the clamped range satisfies
\* 0 <= startIdx <= endIdx <= length - 1, and startIdx = endIdx gives the
\* N/A summary in every field.
C1_OrderedRange ==
    (Computed /\ last.ok) =>
        \A i \in DOMAIN periods :
            LET r == last.ranges[i]
            IN /\ 0 <= r.startIdx
               /\ r.startIdx <= r.endIdx
               /\ r.endIdx <= SeriesLength - 1
               /\ (r.startIdx = r.endIdx
                     => AllNA(forecast.conditions.forecast[i]))

\* C1 amended: the clamped range satisfies 0 <= startIdx and
\* endIdx <= length - 1 (endIdx may lie below startIdx, and below 0), and
\* whenever startIdx >= endIdx the period summary is N/A in every field.
C1_ClampedRange ==
    (Computed /\ last.ok) =>
        \A i \in DOMAIN periods :
            LET r == last.ranges[i]
            IN /\ 0 <= r.startIdx
               /\ r.endIdx <= SeriesLength - 1
               /\ (r.startIdx >= r.endIdx
                     => AllNA(forecast.conditions.forecast[i]))
               /\ forecast.conditions.forecast[i].period = periods[i].name

\* C1 witness: one run has a period whose range is empty with
\* startIdx = endIdx, one whose endIdx is below its startIdx, and one that is
\* not empty.
C1_Witness ==
    /\ Computed /\ last.ok
    /\ \E i, j, k \in DOMAIN periods :
        /\ last.ranges[i].startIdx = last.ranges[i].endIdx
        /\ last.ranges[j].startIdx > last.ranges[j].endIdx
        /\ last.ranges[k].startIdx < last.ranges[k].endIdx
        /\ AllNA(forecast.conditions.forecast[i])
        /\ AllNA(forecast.conditions.forecast[j])
        /\ ~AllNA(forecast.conditions.forecast[k])

RangesAre(m, a, e, n) ==
    last.ranges = <<[startIdx |-> m[1], endIdx |-> m[2]],
                    [startIdx |-> a[1], endIdx |-> a[2]],
                    [startIdx |-> e[1], endIdx |-> e[2]],
                    [startIdx |-> n[1], endIdx |-> n[2]]>>

\* C2 as stated: with a series of length 24 and currentHour = 8 the slicer
\* yields Morning [0,4), Afternoon [4,10), Evening [10,16), Night [16,24).
C2_RoundTrip ==
    (Computed /\ SeriesLength = 24 /\ last.currentHour = 8) =>
        RangesAre(<<0, 4>>, <<4, 10>>, <<10, 16>>, <<16, 24>>)

\* C2 amended: with a series of length 24 and currentHour = 8 the slicer
\* yields Morning [0,4), Afternoon [4,10), Evening [10,16) and Night [16,23):
\* the end of the wrap-around period is clamped to length - 1 = 23.
C2_RoundTripClamped ==
    (Computed /\ SeriesLength = 24 /\ last.currentHour = 8) =>
        RangesAre(<<0, 4>>, <<4, 10>>, <<10, 16>>, <<16, 23>>)

\* C2 witness: a run at 08:00 over a 24-hour series has completed, with all
\* four periods reported.
C2_Witness ==
    /\ Computed /\ last.ok /\ SeriesLength = 24 /\ last.currentHour = 8
    /\ \A i \in DOMAIN periods : ~AllNA(forecast.conditions.forecast[i])

\* The runs whose shift window is in their locals.
Windowed == InFlight

\* C3 as stated: for every now, the shift window has end - start = 24 hours
\* and start's hour of day is the shift start hour, start being today at that
\* hour when now.hour >= it and yesterday at that hour otherwise.
C3_TwentyFourHours ==
    \A id \in Windowed :
        LET run == runs[id]
        IN /\ run.shiftEnd - run.shiftStart = 24
           /\ getHours(tz, run.shiftStart) = 8
           /\ getDate(tz, run.shiftStart) =
                IF getHours(tz, run.now) >= 8 THEN getDate(tz, run.now)
                ELSE getDate(tz, run.now) - 1

\* C3 amended: for every now, with the shift start hour 8 that the code
\* fixes, start's local hour of day is 8, start is today at 08:00 when
\* now.hour >= 8 and yesterday at 08:00 otherwise, and end is 08:00 local of
\* the calendar day after start; end - start is 24 hours unless a
\* daylight-saving transition falls inside the window, and then 23 or 25.
C3_CalendarDay ==
    \A id \in Windowed :
        LET run == runs[id]
        IN /\ getHours(tz, run.shiftStart) = 8
           /\ getDate(tz, run.shiftStart) =
                IF getHours(tz, run.now) >= 8 THEN getDate(tz, run.now)
                ELSE getDate(tz, run.now) - 1
           /\ getHours(tz, run.shiftEnd) = 8
           /\ getDate(tz, run.shiftEnd) = getDate(tz, run.shiftStart) + 1
           /\ (Offset(tz, run.shiftStart) = Offset(tz, run.shiftEnd)
                 => run.shiftEnd - run.shiftStart = 24)
           /\ run.shiftEnd - run.shiftStart \in {23, 24, 25}

\* C3 witness: a run started before 08:00 whose window began the day before
\* and spans a daylight-saving transition.
C3_Witness ==
    \E id \in Windowed :
        /\ getHours(tz, runs[id].now) < 8
        /\ getDate(tz, runs[id].shiftStart) = getDate(tz, runs[id].now) - 1
        /\ runs[id].shiftEnd - runs[id].shiftStart = 23
        /\ runs[id].shiftStart <= runs[id].now
        /\ runs[id].now < runs[id].shiftEnd

\* The properties of the weather payload that lines 182-268 read at the given
\* hour when nothing stops them.
FieldsRead(currentHour, data) ==
    {<<"hourly">>, <<"hourly", "time">>, <<"current">>, <<"daily">>,
     <<"daily", "sunrise">>, <<"daily", "sunset">>}
    \cup {<<"current", f>> :
            f \in {"temperature_2m", "apparent_temperature", "weather_code",
                   "wind_speed_10m", "wind_direction_10m", "wind_gusts_10m",
                   "pressure_msl", "relative_humidity_2m"}}
    \cup (IF /\ Has(data, <<"hourly", "time">>)
             /\ \E i \in DOMAIN periods :
                  ~IsEmptyRange(PeriodRange(periods[i], currentHour,
                                            Len(data.hourly.time)))
          THEN {<<"hourly", SlicedArrays[k]>> : k \in DOMAIN SlicedArrays}
          ELSE {})

\* The weather answer is missing (the fetch failed or was not ok, or its body
\* did not parse) or lacks something the run reads.
WeatherUnusable(rec) ==
    \/ rec.weatherIn.kind # "ok"
    \/ \E path \in FieldsRead(rec.currentHour, rec.weatherIn.data) :
         ~Has(rec.weatherIn.data, path)

WeatherValid(rec) == ~WeatherUnusable(rec)

\* C4: when the weather payload is missing or malformed the run ends in
\* failure: an error is recorded, the run stores no report, and the report
\* and last-update time of an earlier run stay as they were.
C4_UnusableWeatherFails ==
    [][(last' # last /\ WeatherUnusable(last'))
         => /\ ~last'.ok
            /\ error' # NoError
            /\ ~loading'
            /\ forecast' = forecast
            /\ lastUpdate' = lastUpdate]_vars

\* C4, the part the code keeps: a run that failed recorded its error and left
\* the stored report and last-update time as they were.
C4_FailureKeepsReport ==
    [][(last' # last /\ ~last'.ok)
         => /\ error' = last'.message /\ error' # NoError
            /\ ~loading'
            /\ forecast' = forecast
            /\ lastUpdate' = lastUpdate]_vars

TideAbsent(resp) ==
    \/ resp.kind \in {"reject", "badJson", "noPredictions"}
    \/ resp.kind = "predictions" /\ resp.predictions = <<>>

\* The report the run of `last` would have stored had the tide service and the
\* water-temperature service answered tideResp and waterResp.
ReportWith(tideResp, waterResp) ==
    ForecastObj(tz, last.shiftStart, last.shiftEnd, last.currentHour,
                last.weatherIn.data, TidesOf(tideResp), WaterTempOf(waterResp))

\* C5: with a valid weather payload and a tide payload that is missing, failed
\* or without predictions, the run succeeds and stores a report whose tide
\* list is empty and whose current direction and speed are "Variable", the
\* shift window, current conditions and four period summaries being those of
\* a run with tides present.
C5_TideDegrades ==
    (last.id # 0 /\ WeatherValid(last) /\ TideAbsent(last.tideIn)) =>
        /\ last.ok /\ ~loading /\ error = NoError
        /\ forecast.tides = <<>>
        /\ forecast.marine.currentDir = "Variable"
        /\ forecast.marine.currentSpeed = "Variable"
        /\ Len(forecast.conditions.forecast) = 4
        /\ \A resp \in upstream.tide :
             LET other == ReportWith(resp, last.waterIn)
             IN /\ other.shiftStart = forecast.shiftStart
                /\ other.shiftEnd = forecast.shiftEnd
                /\ other.conditions = forecast.conditions
                /\ other.location = forecast.location
                /\ other.marine.waterTemp = forecast.marine.waterTemp
                /\ other.marine.sunrise = forecast.marine.sunrise
                /\ other.marine.sunset = forecast.marine.sunset

\* C5 witness: a run over valid weather whose tide fetch failed stored its
\* report, and a tide answer with predictions would have changed the tides.
C5_Witness ==
    /\ last.id # 0 /\ WeatherValid(last) /\ last.tideIn.kind = "reject"
    /\ last.ok /\ forecast.tides = <<>>
    /\ \E i \in DOMAIN periods : ~AllNA(forecast.conditions.forecast[i])
    /\ \E resp \in upstream.tide :
         ReportWith(resp, last.waterIn).marine.currentDir # "Variable"

WaterAbsent(resp) ==
    \/ resp.kind \in {"reject", "badJson", "noData"}
    \/ resp.kind = "data" /\ resp.data = <<>>

\* C6: with a valid weather payload and a water-temperature reading that is
\* missing, failed or empty, the run succeeds and the report's water
\* temperature is the default 52 degrees F; whatever the water-temperature
\* service answers, no other field of the report changes and no run fails
\* that would otherwise succeed.
C6_WaterDegrades ==
    /\ (last.id # 0 /\ WeatherValid(last) /\ WaterAbsent(last.waterIn)) =>
          /\ last.ok /\ ~loading /\ error = NoError
          /\ forecast.marine.waterTemp = "52°F"
    /\ (last.id # 0 /\ last.weatherIn.kind = "ok") =>
          /\ last.ok = (ThrownBy(last.currentHour, last.weatherIn.data) = NoError)
          /\ last.ok =>
               \A resp \in upstream.water :
                 LET other == ReportWith(last.tideIn, resp)
                 IN [other EXCEPT !.marine.waterTemp = "-"]
                      = [forecast EXCEPT !.marine.waterTemp = "-"]

\* C6 witness: a run over valid weather whose water-temperature answer had no
\* data stored a report with the default, and a reading would have shown.
C6_Witness ==
    /\ last.id # 0 /\ WeatherValid(last) /\ last.waterIn.kind = "data"
    /\ last.waterIn.data = <<>> /\ last.ok
    /\ forecast.marine.waterTemp = "52°F"
    /\ forecast.tides # <<>>
    /\ \E resp \in upstream.water :
         ReportWith(last.tideIn, resp).marine.waterTemp = "49°F"

\* C7: over the normalized tide list, first two events [Low, High] give
\* Flood with speed "0.5-1.5 kt", [High, Low] give Ebb with speed
\* "0.5-1.5 kt", and every other case ([Low, Low], [High, High], fewer than
\* two events) gives direction and speed "Variable"; with the first two
\* events given, later events change nothing.
C7_CurrentClassification ==
    (last.id # 0 /\ last.ok) =>
        LET t == forecast.tides
            m == forecast.marine
            firstTwo == IF Len(t) >= 2 THEN <<t[1].type, t[2].type>> ELSE <<>>
        IN /\ firstTwo = <<"Low", "High">>
                => m.currentDir = "Flood (incoming)" /\ m.currentSpeed = "0.5-1.5 kt"
           /\ firstTwo = <<"High", "Low">>
                => m.currentDir = "Ebb (outgoing)" /\ m.currentSpeed = "0.5-1.5 kt"
           /\ firstTwo \notin {<<"Low", "High">>, <<"High", "Low">>}
                => m.currentDir = "Variable" /\ m.currentSpeed = "Variable"
           /\ \A l \in {<<"Low", "Low">>, <<"High", "High">>, <<>>} :
                firstTwo = l => m.currentDir = "Variable"

\* C7 witness: a stored report classifies Ebb from a list of four events
\* whose third and fourth are High and High.
C7_Witness ==
    /\ last.id # 0 /\ last.ok
    /\ Len(forecast.tides) = 4
    /\ forecast.tides[1].type = "High" /\ forecast.tides[2].type = "Low"
    /\ forecast.tides[3].type = "High" /\ forecast.tides[4].type = "High"
    /\ forecast.marine.currentDir = "Ebb (outgoing)"

\* C8: for a raw tide-prediction list of any length n the normalizer returns
\* min(4, n) events, at most 4, and event i of the output is the formatted
\* event i of the input: its time of day, kind High iff the raw type is 'H',
\* and its height to one decimal.
C8_FirstFourInOrder ==
    (last.id # 0 /\ last.ok /\ last.tideIn.kind = "predictions") =>
        LET raw == last.tideIn.predictions
            out == forecast.tides
        IN /\ Len(out) <= 4
           /\ Len(out) = Min2(4, Len(raw))
           /\ \A i \in 1..Len(out) :
                /\ out[i].time = Pad2(raw[i].t \div 60) \o ":" \o Pad2(raw[i].t % 60)
                /\ (out[i].type = "High") = (raw[i].type = "H")
                /\ out[i].type \in {"High", "Low"}
                /\ out[i].height = FormatTide(raw[i]).height

\* C8 witness: five raw events came in and four went into the report, the
\* first a low tide below the datum.
C8_Witness ==
    /\ last.id # 0 /\ last.ok /\ last.tideIn.kind = "predictions"
    /\ Len(last.tideIn.predictions) = 5
    /\ Len(forecast.tides) = 4
    /\ forecast.tides[1] = [time |-> "01:35", type |-> "Low", height |-> "-0.3 ft"]
    /\ forecast.tides[4].type = "High"
    /\ last.tideIn.predictions[5].type = "L"

\* The hourly winds of period i in the run of `last`, tenths of a knot.
PeriodWinds(i) ==
    Slice(last.weatherIn.data.hourly.wind_speed_10m,
          last.ranges[i].startIdx, last.ranges[i].endIdx)

Reported == {i \in DOMAIN periods : ~IsEmptyRange(last.ranges[i])}

BucketRank(waves) ==
    CASE waves = "1-2 ft" -> 1 [] waves = "2-3 ft" -> 2
      [] waves = "3-5 ft" -> 3 [] waves = "4-6 ft" -> 4

\* C9: the wave-height bucket of a period is a non-decreasing step function
\* of the period's average wind speed in knots (as the period reports it, to
\* the whole knot): below 10 "1-2 ft", below 15 "2-3 ft", below 20 "3-5 ft",
\* otherwise "4-6 ft"; 9, 14, 19 and 25 kt give the four buckets in order.
C9_WaveBuckets ==
    (Computed /\ last.ok) =>
        /\ \A i \in Reported :
             LET kt == RoundDiv(Sum(PeriodWinds(i)), 10 * Len(PeriodWinds(i)))
                 waves == forecast.conditions.forecast[i].waves
             IN /\ kt < 10 => waves = "1-2 ft"
                /\ (10 <= kt /\ kt < 15) => waves = "2-3 ft"
                /\ (15 <= kt /\ kt < 20) => waves = "3-5 ft"
                /\ 20 <= kt => waves = "4-6 ft"
                /\ kt = 9 => waves = "1-2 ft"
                /\ kt = 14 => waves = "2-3 ft"
                /\ kt = 19 => waves = "3-5 ft"
                /\ kt = 25 => waves = "4-6 ft"
        /\ \A i, j \in Reported :
             Sum(PeriodWinds(i)) * Len(PeriodWinds(j))
                 <= Sum(PeriodWinds(j)) * Len(PeriodWinds(i))
               => BucketRank(forecast.conditions.forecast[i].waves)
                    <= BucketRank(forecast.conditions.forecast[j].waves)

\* C9 witness: a stored report has two periods in different buckets, one of
\* them with an average of 14 kt in "2-3 ft" and one of 15 kt in "3-5 ft".
C9_Witness ==
    /\ Computed /\ last.ok
    /\ \E i, j \in Reported :
        /\ RoundDiv(Sum(PeriodWinds(i)), 10 * Len(PeriodWinds(i))) = 14
        /\ forecast.conditions.forecast[i].waves = "2-3 ft"
        /\ RoundDiv(Sum(PeriodWinds(j)), 10 * Len(PeriodWinds(j))) = 15
        /\ forecast.conditions.forecast[j].waves = "3-5 ft"

\* C10: a loaded report is refreshed every 30 minutes without the user
\* pressing Refresh: a new run has started by then, so the report on view is
\* never one that was stored an hour or more ago.
C10_AutoRefresh == View = "report" => clock - lastUpdate < 1

\* Every hourly array of the payload has as many entries as hourly.time.
SameLength(hourly) == \A f \in DOMAIN hourly : Len(hourly[f]) = Len(hourly.time)

\* C11: no reduction (min, max, mean, middle-index lookup) is evaluated on an
\* empty slice: for every period, every currentHour and every series length,
\* when the hourly arrays share one length each of the seven slices the
\* aggregator reduces has at least one element, and whenever the clamped
\* range has startIdx >= endIdx nothing is reduced and the period summary is
\* N/A in every field.
C11_NoEmptyReduction ==
    (Computed /\ last.ok) =>
        \A i \in DOMAIN periods :
            LET r == last.ranges[i]
                hourly == last.weatherIn.data.hourly
                summary == forecast.conditions.forecast[i]
            IN /\ (last.reduced[i] # <<>> /\ SameLength(hourly)) =>
                    /\ Len(last.reduced[i]) = 7
                    /\ \A k \in 1..7 : last.reduced[i][k] >= 1
                    /\ \A k \in 1..7 :
                         last.reduced[i][k] =
                            Len(Slice(hourly[SlicedArrays[k]], r.startIdx, r.endIdx))
               /\ (~AllNA(summary) /\ SameLength(hourly)) =>
                    /\ last.reduced[i] # <<>>
                    /\ r.endIdx - r.startIdx >= 1
               /\ r.startIdx >= r.endIdx =>
                    /\ last.reduced[i] = <<>>
                    /\ AllNA(summary)

\* C11 witness: in one run a period was aggregated over slices of exactly
\* one hour each, and a period whose clamped range has startIdx = endIdx was
\* reported as N/A without any reduction.
C11_Witness ==
    /\ Computed /\ last.ok /\ SameLength(last.weatherIn.data.hourly)
    /\ \E i, j \in DOMAIN periods :
        /\ last.reduced[i] = <<1, 1, 1, 1, 1, 1, 1>>
        /\ ~AllNA(forecast.conditions.forecast[i])
        /\ last.ranges[j].startIdx = last.ranges[j].endIdx
        /\ last.reduced[j] = <<>>
        /\ AllNA(forecast.conditions.forecast[j])

\* The codes that the table of lines 142-148 has a label for.
TableCodes ==
    {0, 1, 2, 3, 45, 48, 51, 53, 55, 61, 63, 65, 71, 73, 75, 80, 81, 82, 95}

\* The weather codes of period i in the run of `last`.
PeriodCodes(i) ==
    Slice(last.weatherIn.data.hourly.weather_code,
          last.ranges[i].startIdx, last.ranges[i].endIdx)

\* C12: for every non-empty slice the dominant condition of the period is the
\* label of the weather code at the middle index of the slice, position
\* floor(sliceLength / 2) within it, which with hourly arrays of one length
\* is series index startIdx + floor((endIdx - startIdx) / 2); it is not a
\* majority vote, and a code the table has no label for yields "Unknown".
C12_MiddleIndex ==
    (Computed /\ last.ok) =>
        \A i \in Reported :
            LET r == last.ranges[i]
                hourly == last.weatherIn.data.hourly
                codes == PeriodCodes(i)
                conditions == forecast.conditions.forecast[i].conditions
            IN codes # <<>> =>
                 LET middle == codes[(Len(codes) \div 2) + 1]
                 IN /\ conditions = getWeatherDescription(middle)
                    /\ (middle \notin TableCodes) = (conditions = "Unknown")
                    /\ middle = 0 => conditions = "Clear"
                    /\ middle = 3 => conditions = "Overcast"
                    /\ middle = 45 => conditions = "Foggy"
                    /\ middle = 61 => conditions = "Light Rain"
                    /\ middle = 95 => conditions = "Thunderstorm"
                    /\ SameLength(hourly) =>
                         /\ Len(codes) = r.endIdx - r.startIdx
                         /\ middle = hourly.weather_code
                                        [r.startIdx + ((r.endIdx - r.startIdx) \div 2) + 1]

\* C12 witness: in one report a period's condition is the label of its middle
\* code although another code occurs more often in the slice, and a period
\* whose middle code has no label reads "Unknown".
C12_Witness ==
    /\ Computed /\ last.ok /\ SameLength(last.weatherIn.data.hourly)
    /\ \E i, j \in Reported :
        LET codes == PeriodCodes(i)
            middle == codes[(Len(codes) \div 2) + 1]
        IN /\ \E c \in Range(codes) :
                /\ Count(codes, c) > Count(codes, middle)
                /\ getWeatherDescription(c) # getWeatherDescription(middle)
           /\ forecast.conditions.forecast[i].conditions
                = getWeatherDescription(middle)
           /\ PeriodCodes(j)[(Len(PeriodCodes(j)) \div 2) + 1] = 4
           /\ forecast.conditions.forecast[j].conditions = "Unknown"

\* The instants that the slice of period i covers in the run of `last`, index
\* k of the hourly series being the hour now + k.
Covered(i) ==
    {last.now + k :
        k \in last.ranges[i].startIdx ..
              (last.ranges[i].startIdx + Len(PeriodCodes(i)) - 1)}

InWindow(t) == last.shiftStart <= t /\ t < last.shiftEnd

InPeriod(i, t) ==
    periods[i].start <= getHours(tz, t) /\ getHours(tz, t) < periods[i].end

\* C13: with index k of the hourly series taken as the hour now + k, for
\* every currentHour every non-empty period slice of a run covers only hours
\* inside that run's shift window [shiftStart, shiftEnd), and only hours of
\* the wall-clock period it is labelled with.
C13_InsideShiftWindow ==
    (Computed /\ last.ok) =>
        \A i \in Reported :
            \A t \in Covered(i) : InWindow(t) /\ InPeriod(i, t)

\* C13, the part the code keeps: every non-empty slice covers only hours of
\* the wall-clock period it is labelled with, and a run that starts at or
\* after 08:00 covers only hours inside its shift window.
C13_LabelledPeriod ==
    (Computed /\ last.ok) =>
        \A i \in Reported :
            \A t \in Covered(i) :
                /\ InPeriod(i, t)
                /\ last.currentHour >= 8 => InWindow(t)

\* C13, where the code departs: a run that starts before 08:00 and reports a
\* period reports it from hours at or after the end of its shift window.
C13_BeforeEightOutside ==
    (Computed /\ last.ok /\ last.currentHour < 8) =>
        \A i \in Reported :
            \A t \in Covered(i) : t >= last.shiftEnd

\* Run id starts, and run id completes, in this step.
Starts(id) == runs[id].pc = "idle" /\ runs'[id].pc # "idle"

Completes(id) == id \in InFlight /\ runs'[id].pc = "done"

\* C14: at most one run is in flight at any time: loading is true from the
\* start of a run until it completes, a run starts only from the effect after
\* the first render or from a view where loading is false (the error view's
\* Retry, the report view's Refresh), and so a run that completes is the one
\* that started last: it overwrites the report, error and last-update time
\* of no run that started after it.
C14_OneRunInFlight ==
    /\ [](Cardinality(InFlight) <= 1)
    /\ [](InFlight # {} => loading /\ View = "loading")
    /\ [][\A id \in RunIds :
            /\ Starts(id) =>
                  /\ InFlight = {}
                  /\ Started = {} \/ (~loading /\ View \in {"error", "report"})
                  /\ loading'
            /\ Completes(id) =>
                  /\ \A j \in Started : j <= id
                  /\ ~loading' /\ InFlight' = {}
            /\ (id \in InFlight /\ ~Completes(id)) =>
                  /\ loading' /\ forecast' = forecast /\ error' = error
                  /\ lastUpdate' = lastUpdate]_vars

\* C14 witness: the report of the first run is stored and a run started with
\* Refresh an hour later is in flight alone, with the loading view up.
C14_Witness ==
    /\ InFlight = {2} /\ runs[1].pc = "done" /\ runs[2].pc = "tide"
    /\ loading /\ forecast # null /\ error = NoError
    /\ lastUpdate < runs[2].now

\* The weather stage of run id, about to complete, has failed: its fetch was
\* rejected, not ok or unparsable (the run ends while awaiting it), or lines
\* 182-268 throw on the payload it delivered.
WeatherFailed(id) ==
    \/ runs[id].pc = "weather"
    \/ /\ runs[id].pc = "water"
       /\ ThrownBy(getHours(tz, runs[id].now), runs[id].weatherData) # NoError

\* C15: every run that is started eventually completes with loading false,
\* given that each fetch settles (a run in flight leaves flight only by
\* completing, and whenever a run is in flight a state follows in which none
\* is and loading is false); at completion error is non-null if and only
\* if the weather stage of that same run failed, whatever the tide and
\* water-temperature services answered and whatever an earlier run left:
\* starting a run clears the error, a run that succeeds stores its own report
\* and the time of its completion, and a run that fails leaves the stored
\* report and last-update time as they were.
C15_RunsComplete ==
    /\ (InFlight # {}) ~> (InFlight = {} /\ ~loading)
    /\ [][\A id \in RunIds :
            /\ Starts(id) => error' = NoError
            /\ id \in InFlight => id \in InFlight' \/ Completes(id)
            /\ Completes(id) =>
                 LET run == runs[id]
                 IN /\ ~loading'
                    /\ (error' # NoError) = WeatherFailed(id)
                    /\ WeatherFailed(id) =>
                         forecast' = forecast /\ lastUpdate' = lastUpdate
                    /\ ~WeatherFailed(id) =>
                         /\ lastUpdate' = clock
                         /\ \E resp \in upstream.water :
                              forecast' =
                                ForecastObj(tz, run.shiftStart, run.shiftEnd,
                                            getHours(tz, run.now), run.weatherData,
                                            run.tides, WaterTempOf(resp))]_vars

\* C15 witness: the first run failed, Retry was pressed an hour later and the
\* retry succeeded: no error is shown, and the stored report and last-update
\* time are those of the retry.
C15_Witness ==
    /\ runs[1] = [pc |-> "done", ok |-> FALSE]
    /\ runs[2] = [pc |-> "done", ok |-> TRUE]
    /\ runs[3].pc = "idle"
    /\ last.id = 2 /\ last.now = 8
    /\ ~loading /\ error = NoError /\ View = "report"
    /\ lastUpdate = clock
    /\ forecast.shiftStart = FormatShift(tz, last.shiftStart)
    /\ forecast.shiftStart = "day 0, 08:00 AM"

====
